---- MODULE Spec2Model ----
(***************************************************************************)
(* Reset detection, interval counting and reconciliation of                *)
(* validation-module-reset-trade-counts/resets.py, over pandas DataFrames. *)
(*                                                                         *)
(* A DataFrame is [type |-> "DataFrame", dtypes |-> column -> dtype,       *)
(* rows |-> sequence of rows], a row being a function from column names to *)
(* values.  Row i of the sequence carries the positional label i-1 (every  *)
(* frame the functions index by label was built with ignore_index=True).   *)
(* A timestamp value is [py |-> its Python type, v |-> seconds].           *)
(***************************************************************************)
EXTENDS Integers, Sequences, FiniteSets, TLC

VARIABLES pc, df_input_slice, df_trades_resets, df_counts,
          df_strategy_trades, df_market_trades, df_all_trades, df_trades_with_reset_counts,
          df_input_slice_before, df_market_trades_before,
          df_trades_resets_again, df_trades_with_reset_counts_again, main,
          trades, start_date_str, end_date_str, all_trades_rows, current_last_timestamp,
          query_results, df_trades, get_trades_result

\* the state of fetch_trades_for_order and get_trades (trades.py)
fetch_vars == <<trades, start_date_str, end_date_str, all_trades_rows, current_last_timestamp,
                query_results, df_trades, get_trades_result>>

vars == <<pc, df_input_slice, df_trades_resets, df_counts,
          df_strategy_trades, df_market_trades, df_all_trades, df_trades_with_reset_counts,
          df_input_slice_before, df_market_trades_before,
          df_trades_resets_again, df_trades_with_reset_counts_again, main, fetch_vars>>

\* ---------------------------------------------------------------- bounds
MaxLen == 3
MaxTs == 3
MaxStrTs == 1
MaxFlagged == 4
MaxStrategy == 2
MaxMarket == 2
MaxReconcileTs == 2
MaxMissingLen == 2
\* the seconds of a day, the days a date can be, the trades of the order and
\* their latest timestamp
DaySeconds == 2
MaxDay == 1
MaxTrades == 3
MaxTradeTs == 4
\* the trades asked for per query; trades.py 64 has page_size = 100
page_size == 2

Tokens == {"A", "B"}

\* ---------------------------------------------------------------- values
None == [type |-> "NoneType"]

NaN == "NaN"

NA == <<>>

Int64(n) == <<n>>

FloatNaN == [nan |-> TRUE]

Float(n) == [f |-> n]

PyInt(v) == [py |-> "int", v |-> v]

PyStr(v) == [py |-> "str", v |-> v]

Timestamp(v) == [py |-> "Timestamp", v |-> v]

Return(v) == [outcome |-> "return", value |-> v]

Raise(e) == [outcome |-> "raise", exc |-> e]

Unset == [outcome |-> "unset"]

DataFrame(dtypes, rows) == [type |-> "DataFrame", dtypes |-> dtypes, rows |-> rows]

isinstance_DataFrame(x) == x.type = "DataFrame"

Columns(df) == DOMAIN df.dtypes

\* df[col] = values: the column is added or replaced, one value per row
SetColumn(df, col, dtype, values) ==
    DataFrame([c \in Columns(df) \cup {col} |-> IF c = col THEN dtype ELSE df.dtypes[c]],
              [i \in 1..Len(df.rows) |->
                  [c \in Columns(df) \cup {col} |->
                      IF c = col THEN values[i] ELSE df.rows[i][c]]])

\* ---------------------------------------------------------------- sorting
\* comparing two keys of different Python types raises TypeError (the keys
\* drawn below are never missing: NaN and NaT timestamps are left out)
Sortable(rows, by) == \A i, j \in 1..Len(rows) : rows[i][by].py = rows[j][by].py

\* The orders an ascending sort on one key can produce.  kind='quicksort' is
\* not stable: rows with equal keys may come out in any relative order.
RECURSIVE SortOrders(_, _, _)
SortOrders(rows, by, idxs) ==
    IF idxs = {} THEN {<<>>}
    ELSE UNION {{<<i>> \o s : s \in SortOrders(rows, by, idxs \ {i})} :
                  i \in {j \in idxs : \A k \in idxs : rows[j][by].v <= rows[k][by].v}}

\* the rows of df in the order o, relabelled 0..n-1 (ignore_index=True)
take(df, o) == DataFrame(df.dtypes, [i \in 1..Len(df.rows) |-> df.rows[o[i]]])

\* df.sort_values(by=by, ascending=True, ignore_index=True), when Sortable
sort_values(df, by) == {take(df, o) : o \in SortOrders(df.rows, by, 1..Len(df.rows))}

\* df[by] as the array of keys the sort is handed
keys(df, by) == [i \in 1..Len(df.rows) |-> df.rows[i][by]]

\* What an earlier call of the sort did: the frame it was handed and the
\* orders that explain what it gave back.  NoSort: there was no earlier call.
Sorted(frame, orders) == [frame |-> frame, orders |-> orders]

NoSort == Sorted(None, {})

\* a sort that draws its pivots at random: every call is free again in how
\* it orders equal keys
SortOrdersAnew(df, by, earlier) == SortOrders(df.rows, by, 1..Len(df.rows))

\* The sort is a function of the key array: handed the keys of the earlier
\* call it orders them as it did then, handed other keys it is free again.
SortOrdersAfter(df, by, earlier) ==
    IF isinstance_DataFrame(earlier.frame) /\ keys(earlier.frame, by) = keys(df, by)
    THEN earlier.orders
    ELSE SortOrders(df.rows, by, 1..Len(df.rows))

\* the sort left out: the frame comes back in the order it has
sort_values_left_alone(df, by, earlier) == {df}

sort_values_after(df, by, earlier) == {take(df, o) : o \in SortOrdersAfter(df, by, earlier)}

\* ---------------------------------------------------------------- Reset Detector
\* np.roll(df[col], 1): the first row takes the value of the last
roll1(df, col) ==
    [i \in 1..Len(df.rows) |-> IF i = 1 THEN df.rows[Len(df.rows)][col] ELSE df.rows[i - 1][col]]

\* df[col].shift(1): the value one row up, NaN on the first row
shift1(df, col) == [i \in 1..Len(df.rows) |-> IF i = 1 THEN NaN ELSE df.rows[i - 1][col]]

\* elementwise == of two object columns: a missing value equals nothing
eq(x, y) == x # NaN /\ y # NaN /\ x = y

\* a dropna() after the shifts of lines 21 and 24: the first row, whose previous
\* tokens are NaN, is dropped
resets_column_dropna(df) ==
    LET d == DataFrame(df.dtypes, [i \in 1..(Len(df.rows) - 1) |-> df.rows[i + 1]])
        d1 == SetColumn(d, "prev_input_token", "object",
                        [i \in 1..Len(d.rows) |-> df.rows[i]["input_token"]])
        d2 == SetColumn(d1, "prev_output_token", "object",
                        [i \in 1..Len(d.rows) |-> df.rows[i]["output_token"]])
    IN SetColumn(d2, "resets", "bool",
                 [i \in 1..Len(d2.rows) |->
                     /\ eq(d2.rows[i]["input_token"], d2.rows[i]["prev_output_token"])
                     /\ eq(d2.rows[i]["output_token"], d2.rows[i]["prev_input_token"])])

\* the second half of the condition of line 27 forgotten
resets_column_first_half(df) ==
    LET d1 == SetColumn(df, "prev_input_token", "object", shift1(df, "input_token"))
        d2 == SetColumn(d1, "prev_output_token", "object", shift1(d1, "output_token"))
    IN SetColumn(d2, "resets", "bool",
                 [i \in 1..Len(d2.rows) |->
                     eq(d2.rows[i]["input_token"], d2.rows[i]["prev_output_token"])])

\* lines 20-28, on the sorted frame
resets_column(df) ==
    LET d1 == SetColumn(df, "prev_input_token", "object", shift1(df, "input_token"))
        d2 == SetColumn(d1, "prev_output_token", "object", shift1(d1, "output_token"))
    IN SetColumn(d2, "resets", "bool",
                 [i \in 1..Len(d2.rows) |->
                     /\ eq(d2.rows[i]["input_token"], d2.rows[i]["prev_output_token"])
                     /\ eq(d2.rows[i]["output_token"], d2.rows[i]["prev_input_token"])])

\* the checks of lines 7-14 moved under the try of line 16: their ValueError
\* is caught at line 32 and None is returned
add_resets_column_checks_caught(df, earlier) ==
    IF ~isinstance_DataFrame(df) THEN {Return(None)}
    ELSE IF {"trade_timestamp", "input_token", "output_token"} \ Columns(df) # {}
         THEN {Return(None)}
    ELSE IF ~Sortable(df.rows, "trade_timestamp")
         THEN {Return(None)}
    ELSE {Return(resets_column(s)) : s \in sort_values_after(df, "trade_timestamp", earlier)}

\* the set of outcomes of add_resets_column(df), line 18 having sorted
\* `earlier` in an earlier call
add_resets_column_after(df, earlier) ==
    IF ~isinstance_DataFrame(df) THEN {Raise("ValueError")}
    ELSE IF {"trade_timestamp", "input_token", "output_token"} \ Columns(df) # {}
         THEN {Raise("ValueError")}
    ELSE IF ~Sortable(df.rows, "trade_timestamp")
         THEN {Return(None)}
    ELSE {Return(resets_column(s)) : s \in sort_values_after(df, "trade_timestamp", earlier)}

\* an empty frame turned away before line 18 ("if df.empty: return None")
add_resets_column_empty_none(df) ==
    IF isinstance_DataFrame(df) /\ df.rows = <<>>
    THEN {Return(None)}
    ELSE add_resets_column_after(df, NoSort)

\* the set of outcomes of add_resets_column(df)
add_resets_column(df) == add_resets_column_after(df, NoSort)

\* df.sort_values(..., inplace=True): the frame of the caller is sorted
df_after_sort_inplace(df) ==
    IF isinstance_DataFrame(df) /\ Sortable(df.rows, "trade_timestamp")
    THEN CHOOSE s \in sort_values(df, "trade_timestamp") : TRUE
    ELSE df

\* line 18 binds the sorted copy to the local name df, and lines 21-27 add
\* their columns to that copy: the frame of the caller is left as it was
df_after_add_resets_column(df) == df

\* what line 18 did in a call on df that had the outcome r
sorted_by_add_resets_column(df, r) ==
    IF r.outcome = "return" /\ r.value.type = "DataFrame"
    THEN Sorted(df, {o \in SortOrders(df.rows, "trade_timestamp", 1..Len(df.rows)) :
                        r = Return(resets_column(take(df, o)))})
    ELSE NoSort

\* ---------------------------------------------------------------- Interval Counter
\* A Series is [index |-> its labels, values |-> its values], both sequences.
Series(index, values) == [index |-> index, values |-> values]

\* the labels taken 1-based
reset_indices_one_based(df) ==
    LET f[i \in 0..Len(df.rows)] ==
            IF i = 0 THEN <<>>
            ELSE IF df.rows[i]["resets"] THEN Append(f[i - 1], i) ELSE f[i - 1]
    IN f[Len(df.rows)]

\* df.index[df['resets']]: the labels of the rows flagged True, ascending
reset_indices(df) ==
    LET f[i \in 0..Len(df.rows)] ==
            IF i = 0 THEN <<>>
            ELSE IF df.rows[i]["resets"] THEN Append(f[i - 1], i - 1) ELSE f[i - 1]
    IN f[Len(df.rows)]

\* Index.to_series(): values and labels are both the index
to_series(R) == Series(R, R)

\* Series.diff(): NaN first, then the difference to the element before
diff(s) ==
    Series(s.index, [k \in 1..Len(s.values) |->
                        IF k = 1 THEN FloatNaN ELSE Float(s.values[k] - s.values[k - 1])])

\* Series - n: NaN stays NaN
sub(s, n) ==
    Series(s.index, [k \in 1..Len(s.values) |->
                        IF s.values[k] = FloatNaN THEN FloatNaN ELSE Float(s.values[k].f - n)])

\* s.loc[label] = v
loc_set(s, label, v) ==
    Series(s.index, [k \in 1..Len(s.values) |-> IF s.index[k] = label THEN v ELSE s.values[k]])

\* s.loc[label], for a label of the index
loc_get(s, label) == s.values[CHOOSE k \in 1..Len(s.index) : s.index[k] = label]

\* a missing count cast to 0
astype_Int64_fillna0(x) == IF x = NA \/ x = FloatNaN THEN Int64(0) ELSE Int64(x.f)

\* astype(pd.Int64Dtype()) of one value
astype_Int64(x) == IF x = NA \/ x = FloatNaN THEN NA ELSE Int64(x.f)

\* line 67 without the - 1
rows_between_count_no_sub(R) ==
    LET index_diff == diff(to_series(R))
    IN loc_set(index_diff, R[1], Float(R[1]))

\* lines 70-78 left out: the first reset keeps the NaN of diff()
rows_between_count_first_nan(R) == sub(diff(to_series(R)), 1)

\* lines 64-78
rows_between_count(R) ==
    LET index_diff == diff(to_series(R))
        first_reset_idx == R[1]
        first_reset_count == first_reset_idx
    IN loc_set(sub(index_diff, 1), first_reset_idx, Float(first_reset_count))

\* lines 82-90: the new column, NA everywhere, then the counts on the reset
\* rows (assignment aligns the Series on the row labels), then the cast
rows_since_last_reset(df, R) ==
    LET counts == rows_between_count(R)
        labels == {R[k] : k \in 1..Len(R)}
    IN SetColumn(df, "rows_since_last_reset", "Int64",
                 [i \in 1..Len(df.rows) |->
                     astype_Int64(IF (i - 1) \in labels THEN loc_get(counts, i - 1) ELSE NA)])

\* no reset: a frame of zero counts instead of None
count_sorted_zero(df) ==
    LET R == reset_indices(df)
    IN IF R # <<>> THEN Return(rows_since_last_reset(df, R))
       ELSE Return(SetColumn(df, "rows_since_last_reset", "Int64",
                             [i \in 1..Len(df.rows) |-> Int64(0)]))

\* lines 59-95: the body of the try block once the frame is sorted
count_sorted(df) ==
    LET R == reset_indices(df)
    IN IF R # <<>> THEN Return(rows_since_last_reset(df, R)) ELSE Return(None)

\* line 53 left out: the rows are counted in the order they come in
calculate_trades_between_resets_unsorted(df, earlier) ==
    IF ~isinstance_DataFrame(df) THEN {Raise("ValueError")}
    ELSE IF {"trade_timestamp", "resets"} \ Columns(df) # {}
         THEN {Raise("ValueError")}
    ELSE {count_sorted(df)}

\* the set of outcomes of calculate_trades_between_resets(df), line 53
\* having sorted `earlier` in an earlier call
calculate_trades_between_resets_after(df, earlier) ==
    IF ~isinstance_DataFrame(df) THEN {Raise("ValueError")}
    ELSE IF {"trade_timestamp", "resets"} \ Columns(df) # {}
         THEN {Raise("ValueError")}
    ELSE IF ~Sortable(df.rows, "trade_timestamp")
         THEN {Return(None)}
    ELSE {count_sorted(s) : s \in sort_values_after(df, "trade_timestamp", earlier)}

\* the set of outcomes of calculate_trades_between_resets(df)
calculate_trades_between_resets(df) == calculate_trades_between_resets_after(df, NoSort)

\* what line 53 did in a call on df that had the outcome r
sorted_by_calculate_trades_between_resets(df, r) ==
    IF isinstance_DataFrame(df) /\ r.outcome = "return"
    THEN Sorted(df, {o \in SortOrders(df.rows, "trade_timestamp", 1..Len(df.rows)) :
                        r = count_sorted(take(df, o))})
    ELSE NoSort

\* lines 53 and 82 working on the frame of the caller: it gains the
\* rows_since_last_reset column
df_after_counting_inplace(df) ==
    IF isinstance_DataFrame(df)
    THEN SetColumn(df, "rows_since_last_reset", "object", [i \in 1..Len(df.rows) |-> NA])
    ELSE df

\* line 53 binds the sorted copy to the local name df, and lines 82-92 write
\* the counts into that copy: the frame of the caller is left as it was
df_after_calculate_trades_between_resets(df) == df

\* ---------------------------------------------------------------- Reconciler
\* the mask ignored: every row kept
filter_rows_all(df, mask) == df

\* df[mask]: the rows whose mask value is True, in order, columns unchanged
filter_rows(df, mask) ==
    LET f[i \in 0..Len(df.rows)] ==
            IF i = 0 THEN <<>>
            ELSE IF mask[i] THEN Append(f[i - 1], df.rows[i]) ELSE f[i - 1]
    IN DataFrame(df.dtypes, f[Len(df.rows)])

\* df.rename(columns={old: new}): a column that is absent is left alone
rename(df, old, new) ==
    IF old \notin Columns(df) THEN df
    ELSE LET cols == (Columns(df) \ {old}) \cup {new}
             src(c) == IF c = new THEN old ELSE c
         IN DataFrame([c \in cols |-> df.dtypes[src(c)]],
                      [i \in 1..Len(df.rows) |-> [c \in cols |-> df.rows[i][src(c)]]])

\* pd.to_datetime(x, unit='s') of one value: epoch seconds become a Timestamp,
\* also when they come as a numeric string; a Timestamp stays what it is
to_datetime(x) == IF x.py \in {"int", "str"} THEN Timestamp(x.v) ELSE x

\* df[col] = pd.to_datetime(df[col], unit='s')
coerce_to_datetime(df, col) ==
    SetColumn(df, col, "datetime64[ns]", [i \in 1..Len(df.rows) |-> to_datetime(df.rows[i][col])])

\* df[cols]
select(df, cols) ==
    DataFrame([c \in cols |-> df.dtypes[c]],
              [i \in 1..Len(df.rows) |-> [c \in cols |-> df.rows[i][c]]])

\* pd.concat([a, b], ignore_index=True): the frame has the columns of both;
\* a cell of a column its side lacks is missing (NaN), here absent from the row
concat(a, b) ==
    LET cols == Columns(a) \cup Columns(b)
        dtype(c) == IF c \notin Columns(a) \/ c \notin Columns(b) THEN "object"
                    ELSE IF a.dtypes[c] = b.dtypes[c] THEN a.dtypes[c] ELSE "object"
    IN DataFrame([c \in cols |-> dtype(c)], a.rows \o b.rows)

\* the cell of row r in column c is missing
isna(r, c) == c \notin DOMAIN r

\* fillna left out: astype(bool) turns a missing flag into True
astype_bool(df) ==
    SetColumn(df, "resets", "bool",
              [i \in 1..Len(df.rows) |-> IF isna(df.rows[i], "resets") THEN TRUE
                                         ELSE df.rows[i]["resets"] = TRUE])

\* df['resets'].fillna(False).astype(bool)
fillna_False(df) ==
    SetColumn(df, "resets", "bool",
              [i \in 1..Len(df.rows) |-> IF isna(df.rows[i], "resets") THEN FALSE
                                         ELSE df.rows[i]["resets"] = TRUE])

\* the order of tx_hash values (string comparison)
TxOrder == <<"X", "Y", "Z">>

tx_rank(t) == CHOOSE k \in 1..Len(TxOrder) : TxOrder[k] = t

\* row r sorts strictly before row q by
\* ['tx_hash', 'trade_timestamp', 'resets'], ascending=[True, True, False]
dedup_before(r, q) ==
    \/ tx_rank(r["tx_hash"]) < tx_rank(q["tx_hash"])
    \/ /\ r["tx_hash"] = q["tx_hash"]
       /\ \/ r["trade_timestamp"].v < q["trade_timestamp"].v
          \/ /\ r["trade_timestamp"].v = q["trade_timestamp"].v
             /\ r["resets"] /\ ~q["resets"]

\* a sort on several keys is stable: equal keys keep their relative order
RECURSIVE StableOrder(_, _)
StableOrder(rows, idxs) ==
    IF idxs = {} THEN <<>>
    ELSE LET i == CHOOSE j \in idxs :
                      \A k \in idxs \ {j} : \/ dedup_before(rows[j], rows[k])
                                              \/ (~dedup_before(rows[k], rows[j]) /\ j < k)
         IN <<i>> \o StableOrder(rows, idxs \ {i})

\* line 173: df.sort_values(by=['tx_hash', 'trade_timestamp', 'resets'],
\* ascending=[True, True, False], inplace=True)
sort_values_dedup(df) ==
    LET o == StableOrder(df.rows, 1..Len(df.rows))
    IN DataFrame(df.dtypes, [i \in 1..Len(df.rows) |-> df.rows[o[i]]])

\* duplicates keyed by tx_hash and trade_timestamp together
duplicated_tx_ts(rows, i) ==
    \E j \in 1..(i - 1) : /\ rows[j]["tx_hash"] = rows[i]["tx_hash"]
                           /\ rows[j]["trade_timestamp"] = rows[i]["trade_timestamp"]

\* df.duplicated(subset=['tx_hash']): an earlier row has the same tx_hash
duplicated(rows, i) == \E j \in 1..(i - 1) : rows[j]["tx_hash"] = rows[i]["tx_hash"]

\* df.drop_duplicates(subset=['tx_hash'], keep='first')
drop_duplicates(df) ==
    LET keep == {i \in 1..Len(df.rows) : ~duplicated(df.rows, i)}
        f[i \in 0..Len(df.rows)] ==
            IF i = 0 THEN <<>>
            ELSE IF i \in keep THEN Append(f[i - 1], df.rows[i]) ELSE f[i - 1]
    IN DataFrame(df.dtypes, f[Len(df.rows)])

\* lines 157-187, on the concatenated frame sorted by trade_timestamp
dedup(df) ==
    IF \E i \in 1..Len(df.rows) : duplicated(df.rows, i)
    THEN drop_duplicates(sort_values_dedup(df))
    ELSE df

\* lines 115-143: the reset rows of the strategy, the market frame renamed,
\* and whichever side line 132 picks coerced to datetime
normalize(df_s, df_m) ==
    LET resets_only == filter_rows(df_s, [i \in 1..Len(df_s.rows) |->
                                                df_s.rows[i]["resets"] = TRUE])
        market == rename(df_m, "datetime", "trade_timestamp")
        s_dtype == resets_only.dtypes["trade_timestamp"]
        m_dtype == market.dtypes["trade_timestamp"]
    IN IF s_dtype = m_dtype /\ resets_only.dtypes["tx_hash"] = market.dtypes["tx_hash"]
       THEN [strategy |-> resets_only, market |-> market]
       ELSE IF s_dtype # m_dtype
            THEN IF s_dtype = "int64"
                 THEN [strategy |-> coerce_to_datetime(resets_only, "trade_timestamp"),
                       market |-> market]
                 ELSE [strategy |-> resets_only,
                       market |-> coerce_to_datetime(market, "trade_timestamp")]
            ELSE [strategy |-> resets_only, market |-> market]

\* lines 116-152: the frame line 155 sorts
all_trades_concat(df_s, df_m) ==
    LET n == normalize(df_s, df_m)
    IN fillna_False(concat(select(n.strategy, {"tx_hash", "trade_timestamp", "resets"}),
                           select(n.market, {"tx_hash", "trade_timestamp"})))

\* The set of outcomes of concatenate_strategy_trades_with_market_trades:
\* market is the caller's market frame after the call, all_trades the frame
\* handed to the interval counter, result what the call returns or raises.
\* Line 155 sorted `earlier155` and line 53 `earlier53` in an earlier call.
concatenate_strategy_trades_with_market_trades_after(df_s, df_m, earlier155, earlier53) ==
    IF ~isinstance_DataFrame(df_s) \/ ~isinstance_DataFrame(df_m)
    THEN {[market |-> df_m, all_trades |-> Unset, result |-> Raise("ValueError")]}
    ELSE IF "resets" \notin Columns(df_s)
    THEN {[market |-> df_m, all_trades |-> Unset, result |-> Raise("KeyError")]}
    ELSE IF \/ {"tx_hash", "trade_timestamp"} \ Columns(df_s) # {}
            \/ {"tx_hash", "trade_timestamp"} \ Columns(rename(df_m, "datetime", "trade_timestamp")) # {}
    THEN {[market |-> rename(df_m, "datetime", "trade_timestamp"), all_trades |-> Unset,
           result |-> Raise("KeyError")]}
    ELSE
    LET n == normalize(df_s, df_m)
        all == all_trades_concat(df_s, df_m)
    IN IF ~Sortable(all.rows, "trade_timestamp")
       THEN {[market |-> n.market, all_trades |-> Unset, result |-> Raise("TypeError")]}
       ELSE UNION {
              LET merged == dedup(sorted)
              IN IF \E i \in 1..Len(merged.rows) : duplicated(merged.rows, i)
                 THEN {[market |-> n.market, all_trades |-> merged,
                        result |-> Raise("ValueError")]}
                 ELSE {[market |-> n.market, all_trades |-> merged, result |-> r] :
                          r \in calculate_trades_between_resets_after(merged, earlier53)} :
              sorted \in sort_values_after(all, "trade_timestamp", earlier155)}

\* the set of outcomes of concatenate_strategy_trades_with_market_trades
concatenate_strategy_trades_with_market_trades(df_s, df_m) ==
    concatenate_strategy_trades_with_market_trades_after(df_s, df_m, NoSort, NoSort)

\* what line 155 did in a call on (df_s, df_m) that handed all_trades to the
\* interval counter
sorted_by_concatenate(df_s, df_m, all_trades) ==
    IF all_trades = Unset THEN NoSort
    ELSE LET all == all_trades_concat(df_s, df_m)
         IN Sorted(all, {o \in SortOrders(all.rows, "trade_timestamp", 1..Len(all.rows)) :
                            all_trades = dedup(take(all, o))})

\* ---------------------------------------------------------------- the scripts
\* The minutes between executed auctions, one value per timestamp: null on the
\* first, then the time since the timestamp before, a fraction d/60 of minutes
\* for d seconds.
calculate_minutes_between_executed_auctions(ts) ==
    [k \in 1..Len(ts) |->
        IF k = 1 THEN FloatNaN ELSE [seconds |-> ts[k].v - ts[k - 1].v, per_minute |-> 60]]

\* validation-module-reset-trade-counts/main.py 113-132, counts being the
\* outcome of line 113: an exception is printed and raised again (121-132);
\* line 116 subscripts the table before line 118 asks whether it is None
main_reset_trade_counts(counts) ==
    IF counts.outcome = "raise" THEN Raise(counts.exc)
    ELSE IF counts.value = None THEN Raise("TypeError")
    ELSE Return(SetColumn(counts.value, "minutes_since_last_executed_auction", "float64",
                          calculate_minutes_between_executed_auctions(
                              keys(counts.value, "trade_timestamp"))))

\* validation-module/main.py 71-96, counts being the outcome of line 72: an
\* exception is printed and raised again (73-78); a table is printed (80-87);
\* on None line 91 assigns a column into None
main_validation_module(counts) ==
    IF counts.outcome = "raise" THEN Raise(counts.exc)
    ELSE IF counts.value # None THEN Return(counts.value)
    ELSE Raise("TypeError")

\* what a script made of the counter's outcome
Handled(script, result) == [script |-> script, result |-> result]

\* ---------------------------------------------------------------- inputs
TsValues == {PyInt(v) : v \in 1..MaxTs} \cup {PyStr(v) : v \in 1..MaxStrTs}

SeqsUpTo(S, n) == UNION {[1..k -> S] : k \in 0..n}

ts_dtype(rows) == IF \A i \in 1..Len(rows) : rows[i]["trade_timestamp"].py = "int"
                  THEN "int64" ELSE "object"

TradeRows == [trade_timestamp : TsValues, input_token : Tokens, output_token : Tokens]

TradeFrames ==
    {DataFrame([trade_timestamp |-> ts_dtype(rows), input_token |-> "object",
                output_token |-> "object"], rows) : rows \in SeqsUpTo(TradeRows, MaxLen)}

\* a record whose token symbol is missing: trades.py 143 and 148 read the symbol
\* with .get("symbol"), which gives None when the subgraph sent none
MissingFieldRows ==
    [trade_timestamp : TsValues, input_token : Tokens \cup {NaN}, output_token : Tokens \cup {NaN}]

\* the frames with at least one record that lacks a token symbol
MissingFieldFrames ==
    {DataFrame([trade_timestamp |-> ts_dtype(rows), input_token |-> "object",
                output_token |-> "object"], rows) :
        rows \in {r \in SeqsUpTo(MissingFieldRows, MaxMissingLen) :
                     \E i \in 1..Len(r) : r[i]["input_token"] = NaN \/ r[i]["output_token"] = NaN}}

FlaggedRows == [trade_timestamp : TsValues, resets : BOOLEAN]

FlaggedFrames ==
    {DataFrame([trade_timestamp |-> ts_dtype(rows), resets |-> "bool"], rows) :
        rows \in SeqsUpTo(FlaggedRows, MaxFlagged)}

\* a frame that went past the detector: it has no resets column
UnflaggedFrames ==
    {DataFrame([trade_timestamp |-> ts_dtype(rows)], rows) :
        rows \in SeqsUpTo([trade_timestamp : TsValues], MaxMissingLen)}

\* the detector is not part of the run: it is handed nothing
NotCalled == [type |-> "not called"]

\* arguments that are no DataFrame: None (what the detector and the counter
\* return on a caught error) and a list of records
NotFrames == {None, [type |-> "list"]}

TimestampDtypes == {"int64", "datetime64[ns]"}

\* a market file read without check.py's cleaning keeps its timestamps as
\* strings of epoch seconds, in a column of dtype object
MarketTimestampDtypes == TimestampDtypes \cup {"object"}

ts_of(dtype, v) == IF dtype = "int64" THEN PyInt(v)
                   ELSE IF dtype = "object" THEN PyStr(v) ELSE Timestamp(v)

TxHashes == {TxOrder[k] : k \in 1..Len(TxOrder)}

\* the transactions of the strategy: one it has alone, one the market has too
StrategyTxHashes == TxHashes \ {"Z"}

\* the transactions of the market: one the strategy has too, one it has alone
MarketTxHashes == TxHashes \ {"X"}

StrategyFrames ==
    UNION {{DataFrame([tx_hash |-> "object", trade_timestamp |-> d, resets |-> "bool"], rows) :
              rows \in SeqsUpTo([tx_hash : StrategyTxHashes,
                                 trade_timestamp : {ts_of(d, v) : v \in 1..MaxReconcileTs},
                                 resets : BOOLEAN], MaxStrategy)} : d \in TimestampDtypes}

MarketFrames ==
    UNION {{DataFrame([tx_hash |-> "object", datetime |-> d], rows) :
              rows \in SeqsUpTo([tx_hash : MarketTxHashes,
                                 datetime : {ts_of(d, v) : v \in 1..MaxReconcileTs}], MaxMarket)} :
           d \in MarketTimestampDtypes}

\* ---------------------------------------------------------------- fetching trades
\* The subgraph holds the trades of the order as ts, their timestamps in
\* descending order; a trade is known by its position i in ts.  A date is a
\* day number, a day has DaySeconds seconds.
\* lines 53-54: the first second of the day
date_timestamp(date_str) == date_str * DaySeconds

\* lines 57-60: the first second of the day after
next_day_timestamp(date_str) == date_timestamp(date_str) + DaySeconds

\* a trade as the subgraph sends it: the timestamp is a string
Trade(ts, i) == [id |-> i, timestamp |-> PyStr(ts[i])]

\* int(s) of a numeric string
int(s) == s.v

\* get_trades 244-247: where timestamp_gte: $startTs, timestamp_lt: $lastTs
Matching(ts, startTs, lastTs) == {i \in 1..Len(ts) : startTs <= ts[i] /\ ts[i] < lastTs}

\* the sequences of at most n different trades out of ids
Batches(ts, ids, n) ==
    {[k \in 1..Len(p) |-> Trade(ts, p[k])] :
        p \in {q \in SeqsUpTo(ids, n) : \A i, j \in 1..Len(q) : q[i] = q[j] => i = j}}

\* get_trades 239-247: first: $pageSize, orderBy: timestamp, orderDirection:
\* desc over the matching trades; trades of one timestamp come in any order
ServerBatches(ts, variables) ==
    LET ids == Matching(ts, variables.startTs, variables.lastTs)
    IN {b \in Batches(ts, ids, variables.pageSize) :
           /\ Len(b) = IF Cardinality(ids) < variables.pageSize
                       THEN Cardinality(ids) ELSE variables.pageSize
           /\ \A k \in 1..(Len(b) - 1) : int(b[k].timestamp) >= int(b[k + 1].timestamp)
           /\ \A i \in ids : \A k \in 1..Len(b) :
                  (\A j \in 1..Len(b) : b[j].id # i) => ts[i] <= int(b[k].timestamp)}

\* what execute_query can give back (lines 7-43): None on a timeout, an HTTP
\* error or a body that is no JSON; else the body, which carries errors, or no
\* data, or the orders matching the hash, each with a batch of its trades.
\* A batch holds at most pageSize trades, all below lastTs.
QueryFailures == {None, [errors |-> "errors"], [message |-> "no data"]}

QueryResults(ts, variables) ==
    QueryFailures
      \cup {[data |-> [orders |-> <<>>]]}
      \cup {[data |-> [orders |-> <<[trades |-> b]>>]] :
               b \in Batches(ts, {i \in 1..Len(ts) : ts[i] < variables.lastTs},
                             variables.pageSize)}

\* line 94: not query_result or "errors" in query_result or "data" not in query_result
failed(query_result) ==
    \/ query_result = None
    \/ "errors" \in DOMAIN query_result
    \/ "data" \notin DOMAIN query_result

\* lines 130-146: the row of one trade, the timestamp kept as a string
row_data(trade) == [trade_id |-> trade.id, trade_timestamp |-> trade.timestamp]

\* line 159 forgotten: the next query is sent with the lastTs of this one
loop_body_same_lastTs(rows, last, startTs, query_result) ==
    IF failed(query_result) \/ query_result.data.orders = <<>>
       \/ query_result.data.orders[1].trades = <<>>
    THEN [all_trades_rows |-> rows, current_last_timestamp |-> last, fetch_more |-> FALSE]
    ELSE LET trades_batch == query_result.data.orders[1].trades
         IN [all_trades_rows |->
                 rows \o [k \in 1..Len(trades_batch) |-> row_data(trades_batch[k])],
             current_last_timestamp |-> last,
             fetch_more |-> ~(last < startTs) /\ ~(Len(trades_batch) < page_size)]

\* a failed query throwing away the rows of the pages before it
loop_body_failure_drops_rows(rows, last, startTs, query_result) ==
    IF failed(query_result)
    THEN [all_trades_rows |-> <<>>, current_last_timestamp |-> last, fetch_more |-> FALSE]
    ELSE IF query_result.data.orders = <<>> \/ query_result.data.orders[1].trades = <<>>
    THEN [all_trades_rows |-> rows, current_last_timestamp |-> last, fetch_more |-> FALSE]
    ELSE LET trades_batch == query_result.data.orders[1].trades
             last_timestamp == int(trades_batch[Len(trades_batch)].timestamp)
         IN [all_trades_rows |->
                 rows \o [k \in 1..Len(trades_batch) |-> row_data(trades_batch[k])],
             current_last_timestamp |-> last_timestamp,
             fetch_more |-> ~(last_timestamp < startTs) /\ ~(Len(trades_batch) < page_size)]

\* one pass of the loop, lines 79-174, on the result of its query: the rows,
\* the lastTs of the next query, and whether there is a next query
\* (a break and fetch_more = False both end the loop)
loop_body(rows, last, startTs, query_result) ==
    IF failed(query_result) \/ query_result.data.orders = <<>>
       \/ query_result.data.orders[1].trades = <<>>
    THEN [all_trades_rows |-> rows, current_last_timestamp |-> last, fetch_more |-> FALSE]
    ELSE LET trades_batch == query_result.data.orders[1].trades
             last_timestamp == int(trades_batch[Len(trades_batch)].timestamp)
         IN [all_trades_rows |->
                 rows \o [k \in 1..Len(trades_batch) |-> row_data(trades_batch[k])],
             current_last_timestamp |-> last_timestamp,
             fetch_more |-> ~(last_timestamp < startTs) /\ ~(Len(trades_batch) < page_size)]

\* pd.to_numeric(x, errors='coerce') of a numeric string
to_numeric(x) == IF x.py = "str" THEN PyInt(x.v) ELSE x

\* the columns of the table (lines 183-187), those of a row of the model
desired_columns_order == <<"trade_id", "trade_timestamp">>

\* lines 178-221: the table of the rows; with no row, line 221 reads
\* desired_columns_order, which only line 183 assigns
table_of(rows) ==
    IF rows # <<>>
    THEN Return(DataFrame([trade_id |-> "object", trade_timestamp |-> "int64"],
                          [k \in 1..Len(rows) |->
                              [trade_id |-> rows[k].trade_id,
                               trade_timestamp |-> to_numeric(rows[k].trade_timestamp)]]))
    ELSE Raise("UnboundLocalError")

\* get_trades 270-286: an exception of fetch_trades_for_order is printed and
\* None is returned
get_trades(fetched) == IF fetched.outcome = "raise" THEN Return(None) ELSE fetched

\* ---------------------------------------------------------------- the run
\* no fetch is under way: the runs below start from frames already in memory
FetchIdle ==
    /\ trades = <<>> /\ start_date_str = 0 /\ end_date_str = 0
    /\ all_trades_rows = <<>> /\ current_last_timestamp = 0 /\ query_results = <<>>
    /\ df_trades = Unset /\ get_trades_result = Unset

\* the detector and the counter as main.py 110-113 chains them;
\* df_input_slice_before keeps the frame as the caller built it
InitDetector ==
    /\ main = Unset /\ FetchIdle
    /\ pc = "start"
    /\ df_input_slice \in TradeFrames \cup MissingFieldFrames \cup NotFrames
    /\ df_input_slice_before = df_input_slice
    /\ df_trades_resets = Unset /\ df_trades_resets_again = Unset
    /\ df_counts = Unset
    /\ df_strategy_trades = None /\ df_market_trades = None /\ df_market_trades_before = None
    /\ df_all_trades = Unset /\ df_trades_with_reset_counts = Unset
    /\ df_trades_with_reset_counts_again = Unset

AddResetsColumn ==
    /\ pc = "start"
    /\ df_trades_resets' \in add_resets_column(df_input_slice)
    /\ df_input_slice' = df_after_add_resets_column(df_input_slice)
    /\ pc' = "flagged"
    /\ UNCHANGED <<df_counts, df_strategy_trades, df_market_trades, df_all_trades,
                   df_trades_with_reset_counts, df_input_slice_before, df_market_trades_before,
                   df_trades_resets_again, df_trades_with_reset_counts_again>>
    /\ UNCHANGED <<main, fetch_vars>>

\* add_resets_column called once more on the frame the caller still holds
AddResetsColumnAgain ==
    /\ pc = "flagged"
    /\ isinstance_DataFrame(df_input_slice)
    /\ df_trades_resets_again' \in
          add_resets_column_after(df_input_slice,
                                  sorted_by_add_resets_column(df_input_slice_before,
                                                              df_trades_resets))
    /\ df_input_slice' = df_after_add_resets_column(df_input_slice)
    /\ pc' = "flagged_twice"
    /\ UNCHANGED <<df_trades_resets, df_counts, df_strategy_trades, df_market_trades,
                   df_all_trades, df_trades_with_reset_counts, df_input_slice_before,
                   df_market_trades_before, df_trades_with_reset_counts_again>>
    /\ UNCHANGED <<main, fetch_vars>>

\* main.py 113: runs only when add_resets_column returned (a raise stops the script)
CalculateTradesBetweenResets ==
    /\ pc = "flagged"
    /\ df_trades_resets.outcome = "return"
    /\ df_counts' \in calculate_trades_between_resets(df_trades_resets.value)
    /\ df_trades_resets' =
          Return(df_after_calculate_trades_between_resets(df_trades_resets.value))
    /\ pc' = "counted"
    /\ UNCHANGED <<df_input_slice, df_strategy_trades, df_market_trades,
                   df_all_trades, df_trades_with_reset_counts, df_input_slice_before,
                   df_market_trades_before, df_trades_resets_again,
                   df_trades_with_reset_counts_again>>
    /\ UNCHANGED <<main, fetch_vars>>

\* validation-module-reset-trade-counts/main.py goes on after line 113
MainResetTradeCounts ==
    /\ pc = "counted"
    /\ main' = Handled("validation-module-reset-trade-counts", main_reset_trade_counts(df_counts))
    /\ pc' = "handled"
    /\ UNCHANGED <<df_input_slice, df_trades_resets, df_counts, df_strategy_trades,
                   df_market_trades, df_all_trades, df_trades_with_reset_counts,
                   df_input_slice_before, df_market_trades_before, df_trades_resets_again,
                   df_trades_with_reset_counts_again, fetch_vars>>

\* validation-module/main.py goes on after line 72; it gets there with a
\* flagged table only (lines 54-68 use the table and its resets column)
MainValidationModule ==
    /\ pc = "counted"
    /\ isinstance_DataFrame(df_trades_resets.value)
    /\ "resets" \in Columns(df_trades_resets.value)
    /\ main' = Handled("validation-module", main_validation_module(df_counts))
    /\ pc' = "handled"
    /\ UNCHANGED <<df_input_slice, df_trades_resets, df_counts, df_strategy_trades,
                   df_market_trades, df_all_trades, df_trades_with_reset_counts,
                   df_input_slice_before, df_market_trades_before, df_trades_resets_again,
                   df_trades_with_reset_counts_again, fetch_vars>>

\* the interval counter on any flagged frame, not only the detector's
InitCounter ==
    /\ main = Unset /\ FetchIdle
    /\ pc = "flagged"
    /\ df_input_slice = NotCalled /\ df_input_slice_before = NotCalled
    /\ df_trades_resets \in {Return(f) : f \in FlaggedFrames \cup UnflaggedFrames \cup NotFrames}
    /\ df_trades_resets_again = Unset
    /\ df_counts = Unset
    /\ df_strategy_trades = None /\ df_market_trades = None /\ df_market_trades_before = None
    /\ df_all_trades = Unset /\ df_trades_with_reset_counts = Unset
    /\ df_trades_with_reset_counts_again = Unset

\* the reconciler on a flagged strategy frame and a market frame;
\* df_market_trades_before keeps the market frame as the caller built it
InitReconciler ==
    /\ main = Unset /\ FetchIdle
    /\ pc = "reconcile"
    /\ df_strategy_trades \in StrategyFrames \cup NotFrames
    /\ df_market_trades \in MarketFrames \cup NotFrames
    /\ df_market_trades_before = df_market_trades
    /\ df_all_trades = Unset /\ df_trades_with_reset_counts = Unset
    /\ df_trades_with_reset_counts_again = Unset
    /\ df_input_slice = NotCalled /\ df_input_slice_before = NotCalled
    /\ df_trades_resets = Unset /\ df_trades_resets_again = Unset /\ df_counts = Unset

ConcatenateStrategyTradesWithMarketTrades ==
    /\ pc = "reconcile"
    /\ \E o \in concatenate_strategy_trades_with_market_trades(df_strategy_trades,
                                                                df_market_trades) :
          /\ df_market_trades' = o.market
          /\ df_all_trades' = o.all_trades
          /\ df_trades_with_reset_counts' = o.result
    /\ pc' = "reconciled"
    /\ UNCHANGED <<df_input_slice, df_trades_resets, df_counts, df_strategy_trades,
                   df_input_slice_before, df_market_trades_before, df_trades_resets_again,
                   df_trades_with_reset_counts_again>>
    /\ UNCHANGED <<main, fetch_vars>>

\* the reconciler called once more on the two frames the caller still holds
ConcatenateStrategyTradesWithMarketTradesAgain ==
    /\ pc = "reconciled"
    /\ \E o \in concatenate_strategy_trades_with_market_trades_after(
                    df_strategy_trades, df_market_trades,
                    sorted_by_concatenate(df_strategy_trades, df_market_trades_before,
                                          df_all_trades),
                    sorted_by_calculate_trades_between_resets(df_all_trades,
                                                              df_trades_with_reset_counts)) :
          /\ df_market_trades' = o.market
          /\ df_trades_with_reset_counts_again' = o.result
    /\ pc' = "reconciled_twice"
    /\ UNCHANGED <<df_input_slice, df_trades_resets, df_counts, df_strategy_trades,
                   df_all_trades, df_trades_with_reset_counts, df_input_slice_before,
                   df_market_trades_before, df_trades_resets_again>>
    /\ UNCHANGED <<main, fetch_vars>>

\* no frame is worked on: the run is a fetch
FramesIdle ==
    /\ df_input_slice = NotCalled /\ df_input_slice_before = NotCalled
    /\ df_trades_resets = Unset /\ df_trades_resets_again = Unset /\ df_counts = Unset
    /\ df_strategy_trades = None /\ df_market_trades = None /\ df_market_trades_before = None
    /\ df_all_trades = Unset /\ df_trades_with_reset_counts = Unset
    /\ df_trades_with_reset_counts_again = Unset /\ main = Unset

frames_vars == <<df_input_slice, df_input_slice_before, df_trades_resets, df_trades_resets_again,
                 df_counts, df_strategy_trades, df_market_trades, df_market_trades_before,
                 df_all_trades, df_trades_with_reset_counts, df_trades_with_reset_counts_again,
                 main>>

\* the timestamps of at most MaxTrades trades, in descending order
TradeTimestamps ==
    {ts \in SeqsUpTo(0..MaxTradeTs, MaxTrades) : \A i \in 1..(Len(ts) - 1) : ts[i] >= ts[i + 1]}

\* fetch_trades_for_order at the head of its loop, lines 53-71 done
FetchInit ==
    /\ FramesIdle
    /\ pc = "fetching"
    /\ trades \in TradeTimestamps
    /\ start_date_str \in 0..MaxDay /\ end_date_str \in 0..MaxDay
    /\ all_trades_rows = <<>>
    /\ current_last_timestamp = next_day_timestamp(end_date_str)
    /\ query_results = <<>>
    /\ df_trades = Unset /\ get_trades_result = Unset

\* lines 82-87: the variables of the query
variables ==
    [startTs |-> date_timestamp(start_date_str), pageSize |-> page_size,
     lastTs |-> current_last_timestamp]

\* one pass of the loop: the query is sent, its result is worked on
FetchPage ==
    /\ pc = "fetching"
    /\ \E query_result \in QueryResults(trades, variables) :
          LET after == loop_body(all_trades_rows, current_last_timestamp,
                                 date_timestamp(start_date_str), query_result)
          IN /\ all_trades_rows' = after.all_trades_rows
             /\ current_last_timestamp' = after.current_last_timestamp
             /\ pc' = IF after.fetch_more THEN "fetching" ELSE "fetched"
             /\ query_results' = Append(query_results,
                                        [variables |-> variables, result |-> query_result])
    /\ UNCHANGED <<trades, start_date_str, end_date_str, df_trades, get_trades_result,
                   frames_vars>>

\* lines 176-221 and get_trades 270-286: the table is built and handed over
GetTradesReturns ==
    /\ pc = "fetched"
    /\ df_trades' = table_of(all_trades_rows)
    /\ get_trades_result' = get_trades(table_of(all_trades_rows))
    /\ pc' = "got"
    /\ UNCHANGED <<trades, start_date_str, end_date_str, all_trades_rows,
                   current_last_timestamp, query_results, frames_vars>>

FetchNext == FetchPage \/ GetTradesReturns

FetchSpec == FetchInit /\ [][FetchNext]_vars

Init == InitDetector \/ InitCounter \/ InitReconciler

Next ==
    \/ AddResetsColumn
    \/ AddResetsColumnAgain
    \/ CalculateTradesBetweenResets
    \/ MainResetTradeCounts
    \/ MainValidationModule
    \/ ConcatenateStrategyTradesWithMarketTrades
    \/ ConcatenateStrategyTradesWithMarketTradesAgain

Spec == Init /\ [][Next]_vars

\* ---------------------------------------------------------------- properties
\* the frame a call returned (a DataFrame, not None, not a raise)
ReturnedFrame(o) == o.outcome = "return" /\ o.value.type = "DataFrame"

\* the detector has run on df_input_slice
Detected ==
    pc \in {"flagged", "counted", "flagged_twice"} /\ df_input_slice.type = "DataFrame"

\* the interval counter has run on df_trades_resets.value
Counted ==
    /\ pc = "counted" /\ df_trades_resets.value.type = "DataFrame"
    /\ "resets" \in Columns(df_trades_resets.value)

\* the reconciler has run and returned a merged timeline
Reconciled == pc = "reconciled" /\ ReturnedFrame(df_trades_with_reset_counts)

Ascending(rows) ==
    \A i \in 1..(Len(rows) - 1) : rows[i]["trade_timestamp"].v <= rows[i + 1]["trade_timestamp"].v

\* the 0-based positions of the reset rows
ResetPositions(rows) == {p \in 0..(Len(rows) - 1) : rows[p + 1]["resets"]}

Max(S) == CHOOSE x \in S : \A y \in S : y <= x

Min(S) == CHOOSE x \in S : \A y \in S : x <= y

\* rows is a reordering of the rows of src, compared on the columns of src
Reordering(rows, src) ==
    /\ Len(rows) = Len(src.rows)
    /\ \A r \in {src.rows[i] : i \in 1..Len(src.rows)} :
          Cardinality({i \in 1..Len(rows) : [c \in Columns(src) |-> rows[i][c]] = r})
            = Cardinality({i \in 1..Len(src.rows) : src.rows[i] = r})

RECURSIVE SumCounts(_)
SumCounts(rows) ==
    IF rows = <<>> THEN 0
    ELSE (IF Head(rows)["rows_since_last_reset"] = NA THEN 0
          ELSE Head(rows)["rows_since_last_reset"][1]) + SumCounts(Tail(rows))

TxIds(rows) == {rows[i]["tx_hash"] : i \in 1..Len(rows)}

ResetTxIds(rows) == {rows[i]["tx_hash"] : i \in {j \in 1..Len(rows) : rows[j]["resets"]}}

\* some record of df lacks a token symbol
MissingField(df) ==
    \E i \in 1..Len(df.rows) : df.rows[i]["input_token"] = NaN \/ df.rows[i]["output_token"] = NaN

C3_StrategyRecordSurvives ==
    Reconciled =>
        LET rows == df_trades_with_reset_counts.value.rows
            srows == df_strategy_trades.rows
        IN \A i \in 1..Len(rows) :
              (rows[i]["tx_hash"] \in ResetTxIds(srows) \cap TxIds(df_market_trades.rows)) =>
                  /\ rows[i]["resets"]
                  /\ \E j \in 1..Len(srows) :
                        /\ srows[j]["resets"]
                        /\ srows[j]["tx_hash"] = rows[i]["tx_hash"]
                        /\ srows[j]["trade_timestamp"].v = rows[i]["trade_timestamp"].v

\* C4: no tx_hash appears twice in a merged timeline the Reconciler returns.
C4_NoDuplicateTx ==
    Reconciled =>
        LET rows == df_trades_with_reset_counts.value.rows
        IN \A i, j \in 1..Len(rows) : rows[i]["tx_hash"] = rows[j]["tx_hash"] => i = j

C4_Witness ==
    /\ Reconciled
    /\ LET m == df_market_trades.rows
       IN /\ \E i, j \in 1..Len(m) : i # j /\ m[i]["tx_hash"] = m[j]["tx_hash"]
          /\ TxIds(m) \cap ResetTxIds(df_strategy_trades.rows) # {}

\* C5: the tx_hash values of a merged timeline the Reconciler returns are
\* exactly those of the strategy rows flagged a reset and of the market rows.
C5_UnionOfTxIds ==
    Reconciled =>
        TxIds(df_trades_with_reset_counts.value.rows) =
            ResetTxIds(df_strategy_trades.rows) \cup TxIds(df_market_trades.rows)

C5_Witness ==
    /\ Reconciled
    /\ TxIds(df_strategy_trades.rows) \ TxIds(df_trades_with_reset_counts.value.rows) # {}
    /\ TxIds(df_market_trades.rows) \ ResetTxIds(df_strategy_trades.rows) # {}

\* C6 (as claimed): the interval counts of a returned frame add up to
\* total_rows - number_of_resets.
C6_SumIsNonResetRows ==
    (Counted /\ ReturnedFrame(df_counts)) =>
        LET rows == df_counts.value.rows
        IN SumCounts(rows) = Len(rows) - Cardinality(ResetPositions(rows))

\* C6 (amended): the interval counts of a returned frame add up to the number
\* of non-reset rows that come before the last reset; the rows after the last
\* reset are counted by no interval.
C6_SumIsNonResetRowsBeforeLastReset ==
    (Counted /\ ReturnedFrame(df_counts)) =>
        LET rows == df_counts.value.rows
            R == ResetPositions(rows)
        IN SumCounts(rows) =
               Cardinality({p \in 0..(Len(rows) - 1) : p \notin R /\ p < Max(R)})

C6_Witness ==
    /\ Counted /\ ReturnedFrame(df_counts)
    /\ LET rows == df_counts.value.rows
           R == ResetPositions(rows)
       IN /\ Max(R) < Len(rows) - 1
          /\ Cardinality(R) >= 2
          /\ SumCounts(rows) >= 1

\* scenario 1: trades [A->B, B->A, A->B] at timestamps [1, 2, 3]
Scenario1 ==
    DataFrame([trade_timestamp |-> "int64", input_token |-> "object", output_token |-> "object"],
              <<[trade_timestamp |-> PyInt(1), input_token |-> "A", output_token |-> "B"],
                [trade_timestamp |-> PyInt(2), input_token |-> "B", output_token |-> "A"],
                [trade_timestamp |-> PyInt(3), input_token |-> "A", output_token |-> "B"]>>)

Flags(rows) == [i \in 1..Len(rows) |-> rows[i]["resets"]]

IntervalCounts(rows) == [i \in 1..Len(rows) |-> rows[i]["rows_since_last_reset"]]

\* C7 (as claimed): on scenario 1 the Reset Detector flags [false, true, false]
\* and the Interval Counter gives the reset at t=2 the count 1.
C7_Scenario1 ==
    (Detected /\ df_input_slice = Scenario1) =>
        /\ ReturnedFrame(df_trades_resets)
        /\ Flags(df_trades_resets.value.rows) = <<FALSE, TRUE, FALSE>>
        /\ pc = "counted" =>
              /\ ReturnedFrame(df_counts)
              /\ df_counts.value.rows[2]["rows_since_last_reset"] = Int64(1)

\* C7 (amended): on scenario 1 the Reset Detector flags [false, true, true]
\* (the trade at t=3 reverses the trade at t=2), and the Interval Counter
\* gives the reset at t=2 the count 1 and the reset at t=3 the count 0.
C7_Scenario1Amended ==
    (Detected /\ df_input_slice = Scenario1) =>
        /\ ReturnedFrame(df_trades_resets)
        /\ Flags(df_trades_resets.value.rows) = <<FALSE, TRUE, TRUE>>
        /\ pc = "counted" =>
              /\ ReturnedFrame(df_counts)
              /\ IntervalCounts(df_counts.value.rows) = <<NA, Int64(1), Int64(0)>>

C7_Witness == pc = "counted" /\ df_input_slice = Scenario1 /\ ReturnedFrame(df_counts)

C9_NoResetsIsNone ==
    /\ (Counted /\ ResetPositions(df_trades_resets.value.rows) = {}) =>
           df_counts = Return(None)
    /\ (pc = "reconciled" /\ df_all_trades # Unset /\ ResetPositions(df_all_trades.rows) = {}) =>
           df_trades_with_reset_counts = Return(None)

C9_Witness ==
    /\ pc = "reconciled" /\ df_all_trades # Unset
    /\ Len(df_all_trades.rows) >= 2
    /\ ResetPositions(df_all_trades.rows) = {}
    /\ df_trades_with_reset_counts = Return(None)

\* C10 (as claimed): neither operation returns an absent value in place of
\* an error: the Reset Detector never returns None, and the Interval Counter
\* returns None only for an input without a reset row.
C10_FailuresAreRaised ==
    /\ Detected => df_trades_resets # Return(None)
    /\ (Counted /\ df_counts = Return(None)) =>
           ResetPositions(df_trades_resets.value.rows) = {}

\* C11 (as claimed): on an input with a record that lacks a required field
\* the Reset Detector raises; it never returns a flagged frame for it.
C11_MissingFieldRaises ==
    (Detected /\ MissingField(df_input_slice_before)) => df_trades_resets.outcome = "raise"

\* C12 (as claimed): a call of the Reconciler leaves the market frame of the
\* caller as it was: same column names, same timestamp representation, same
\* rows in the same order.
C12_InputsUnchanged ==
    pc \in {"reconciled", "reconciled_twice"} => df_market_trades = df_market_trades_before

\* the dtypes the coercion of lines 128-139 names
RecognisedDtypes == {"int64", "datetime64[ns]"}

\* C13 (as claimed): when the timestamp dtypes of the two inputs differ, the
\* Reconciler converts a side only if that side is int64 epoch seconds and the
\* other side is datetime; with a dtype it does not recognise on either side
\* it raises and converts nothing.
C13_CoerceRecognisedOrRaise ==
    (/\ pc = "reconciled"
     /\ isinstance_DataFrame(df_strategy_trades)
     /\ isinstance_DataFrame(df_market_trades_before)) =>
        LET s == df_strategy_trades.dtypes["trade_timestamp"]
            m == df_market_trades_before.dtypes["datetime"]
        IN (s # m /\ {s, m} # RecognisedDtypes) =>
              /\ df_trades_with_reset_counts.outcome = "raise"
              /\ keys(df_market_trades, "trade_timestamp") =
                     keys(df_market_trades_before, "datetime")

\* the reconciler has run twice
ReconciledTwice == pc = "reconciled_twice"

ResetRows(df) ==
    {<<df.rows[i]["tx_hash"], df.rows[i]["trade_timestamp"].v>> :
        i \in {j \in 1..Len(df.rows) : df.rows[j]["resets"]}}

\* the reconciler has run on an empty market frame
ReconciledAlone ==
    /\ pc = "reconciled"
    /\ isinstance_DataFrame(df_strategy_trades)
    /\ isinstance_DataFrame(df_market_trades_before)
    /\ df_market_trades_before.rows = <<>>

\* C15 (as claimed): on an empty market frame the Reconciler returns exactly
\* the rows of the strategy frame flagged a reset: each of them, and no other.
C15_ExactlyTheResetRows ==
    ReconciledAlone =>
        /\ ReturnedFrame(df_trades_with_reset_counts)
        /\ LET rows == df_trades_with_reset_counts.value.rows
           IN /\ \A i \in 1..Len(rows) : rows[i]["resets"]
              /\ {<<rows[i]["tx_hash"], rows[i]["trade_timestamp"].v>> : i \in 1..Len(rows)}
                    = ResetRows(df_strategy_trades)
              /\ Len(rows) = Cardinality(ResetPositions(df_strategy_trades.rows))

\* C15 (amended): on an empty market frame the Reconciler returns None when
\* the strategy frame has no reset row, and otherwise one row for each
\* tx_hash of its reset rows, flagged a reset and stamped with the earliest
\* timestamp that tx_hash has among them, and no other row; these are exactly
\* the reset rows when their tx_hash values are pairwise distinct.
C15_OneResetRowPerTx ==
    ReconciledAlone =>
        IF ResetPositions(df_strategy_trades.rows) = {}
        THEN df_trades_with_reset_counts = Return(None)
        ELSE /\ ReturnedFrame(df_trades_with_reset_counts)
             /\ LET rows == df_trades_with_reset_counts.value.rows
                    A == ResetRows(df_strategy_trades)
                IN /\ \A i \in 1..Len(rows) : rows[i]["resets"]
                   /\ \A i, j \in 1..Len(rows) :
                         rows[i]["tx_hash"] = rows[j]["tx_hash"] => i = j
                   /\ {<<rows[i]["tx_hash"], rows[i]["trade_timestamp"].v>> : i \in 1..Len(rows)}
                         = {a \in A : \A b \in A : b[1] = a[1] => a[2] <= b[2]}

C15_Witness ==
    /\ ReconciledAlone /\ ReturnedFrame(df_trades_with_reset_counts)
    /\ Len(df_trades_with_reset_counts.value.rows) = 1
    /\ Cardinality(ResetRows(df_strategy_trades)) = 2

\* C16: in a merged timeline the Reconciler returns no reset flag is missing:
\* every row carries True or False, and a row whose tx_hash comes from the
\* market frame only carries False.
C16_NoNullFlag ==
    Reconciled =>
        LET rows == df_trades_with_reset_counts.value.rows
        IN \A i \in 1..Len(rows) :
              /\ ~isna(rows[i], "resets")
              /\ rows[i]["resets"] \in BOOLEAN
              /\ rows[i]["tx_hash"] \notin ResetTxIds(df_strategy_trades.rows) =>
                     rows[i]["resets"] = FALSE

C16_Witness ==
    /\ Reconciled
    /\ LET rows == df_trades_with_reset_counts.value.rows
       IN \E i, j \in 1..Len(rows) :
             /\ rows[i]["tx_hash"] \notin TxIds(df_strategy_trades.rows) /\ ~rows[i]["resets"]
             /\ rows[j]["resets"]

\* C17: a merged timeline the Reconciler returns is in ascending timestamp
\* order, also when the deduplication left the rows ordered by tx_hash; it
\* holds the rows handed to the Interval Counter, and its counts are those
\* of the counter on that order: the reset at 0-based position p carries p
\* when it is the first reset and p - q - 1 after a reset at q.
C17_MergedAscendingAndCounted ==
    Reconciled =>
        LET rows == df_trades_with_reset_counts.value.rows
            R == ResetPositions(rows)
        IN /\ Ascending(rows)
           /\ Reordering(rows, df_all_trades)
           /\ \A p \in 0..(Len(rows) - 1) :
                 rows[p + 1]["rows_since_last_reset"] =
                     IF p \notin R THEN NA
                     ELSE Int64(IF p = Min(R) THEN p ELSE p - Max({q \in R : q < p}) - 1)

C17_Witness ==
    /\ Reconciled
    /\ ~Ascending(df_all_trades.rows)
    /\ Cardinality(ResetPositions(df_trades_with_reset_counts.value.rows)) >= 2

\* the rows of df in ascending timestamp order, equal timestamps in the
\* order they have in df
StableSorted(df) ==
    take(df, CHOOSE o \in SortOrders(df.rows, "trade_timestamp", 1..Len(df.rows)) :
                 \A i, j \in 1..Len(o) :
                     (i < j /\ df.rows[o[i]]["trade_timestamp"] = df.rows[o[j]]["trade_timestamp"])
                         => o[i] < o[j])

\* C18 (as claimed): the frame the Reset Detector returns holds the trades
\* in ascending timestamp order with trades of equal timestamp in the order
\* they had in the input.
C18_StableSort ==
    (Detected /\ ReturnedFrame(df_trades_resets)) =>
        LET rows == df_trades_resets.value.rows
        IN [i \in 1..Len(rows) |-> [c \in Columns(df_input_slice_before) |-> rows[i][c]]]
               = StableSorted(df_input_slice_before).rows

\* C19: the first row of a frame the Reset Detector returns is not flagged
\* a reset, and on an input of one record the detector returns one row,
\* not flagged.
C19_FirstRowNotReset ==
    Detected =>
        /\ (ReturnedFrame(df_trades_resets) /\ df_trades_resets.value.rows # <<>>) =>
               df_trades_resets.value.rows[1]["resets"] = FALSE
        /\ Len(df_input_slice_before.rows) = 1 =>
               /\ ReturnedFrame(df_trades_resets)
               /\ Flags(df_trades_resets.value.rows) = <<FALSE>>

C19_Witness ==
    /\ Detected /\ ReturnedFrame(df_trades_resets)
    /\ LET rows == df_trades_resets.value.rows
       IN /\ Len(rows) >= 2
          /\ rows[1]["input_token"] = rows[Len(rows)]["output_token"]
          /\ rows[1]["output_token"] = rows[Len(rows)]["input_token"]
          /\ rows[1]["input_token"] # NaN /\ rows[1]["output_token"] # NaN

C22_EmptyInEmptyOut ==
    (Detected /\ df_input_slice_before.rows = <<>>) =>
        /\ ReturnedFrame(df_trades_resets)
        /\ df_trades_resets.value.rows = <<>>
        /\ Columns(df_input_slice_before) \cup {"resets"} \subseteq Columns(df_trades_resets.value)

C22_Witness ==
    /\ Detected /\ df_input_slice_before.rows = <<>>
    /\ df_trades_resets.outcome = "return"

\* C23: an argument of the wrong shape is turned away with an exception that
\* reaches the caller, and no result comes back: the Reset Detector raises on
\* an argument that is no DataFrame, the Interval Counter raises on one that is
\* no DataFrame or that has no resets column, and the Reconciler raises when
\* either of its two arguments is no DataFrame.
C23_WrongShapeRaises ==
    /\ (pc \in {"flagged", "flagged_twice", "counted"} /\ df_input_slice_before \in NotFrames)
          => df_trades_resets.outcome = "raise"
    /\ (pc = "counted" /\ (\/ df_trades_resets.value \in NotFrames
                            \/ /\ isinstance_DataFrame(df_trades_resets.value)
                               /\ "resets" \notin Columns(df_trades_resets.value)))
          => df_counts.outcome = "raise"
    /\ (pc \in {"reconciled", "reconciled_twice"}
           /\ (df_strategy_trades \in NotFrames \/ df_market_trades_before \in NotFrames))
          => df_trades_with_reset_counts.outcome = "raise"

C23_Witness ==
    /\ pc = "counted"
    /\ isinstance_DataFrame(df_trades_resets.value)
    /\ "resets" \notin Columns(df_trades_resets.value)
    /\ df_trades_resets.value.rows # <<>>
    /\ df_counts = Raise("ValueError")

\* the orders in which n rows can be handed over
RowOrders(n) == {o \in [1..n -> 1..n] : \A i, j \in 1..n : o[i] = o[j] => i = j}

DistinctTimestamps(rows) ==
    \A i, j \in 1..Len(rows) :
        rows[i]["trade_timestamp"] = rows[j]["trade_timestamp"] => i = j

\* C24: on a flagged frame whose timestamps are pairwise distinct, the
\* Interval Counter gives the same outcome for every order of the rows: the
\* frame in ascending timestamp order with the same count on every record.
C24_CountsWhateverTheRowOrder ==
    (Counted /\ DistinctTimestamps(df_trades_resets.value.rows)) =>
        \A o \in RowOrders(Len(df_trades_resets.value.rows)) :
            calculate_trades_between_resets(take(df_trades_resets.value, o)) = {df_counts}

C24_Witness ==
    /\ Counted /\ DistinctTimestamps(df_trades_resets.value.rows)
    /\ ~Ascending(df_trades_resets.value.rows)
    /\ ReturnedFrame(df_counts)
    /\ Ascending(df_counts.value.rows)
    /\ \E i \in 1..Len(df_counts.value.rows) :
          df_counts.value.rows[i]["rows_since_last_reset"] \notin {NA, Int64(0)}

NoResetsReported ==
    /\ pc = "handled"
    /\ isinstance_DataFrame(df_trades_resets.value)
    /\ "resets" \in Columns(df_trades_resets.value)
    /\ Sortable(df_trades_resets.value.rows, "trade_timestamp")
    /\ ResetPositions(df_trades_resets.value.rows) = {}
    /\ df_counts = Return(None)

\* C27 (as claimed): when the Interval Counter reports "no resets", neither
\* script raises: validation-module/main.py goes on with the table, its
\* rows_since_last_reset column all NA, and
\* validation-module-reset-trade-counts/main.py gets past its try block.
C27_NoResetsHandled ==
    NoResetsReported =>
        /\ main.result.outcome = "return"
        /\ main.script = "validation-module" =>
              /\ isinstance_DataFrame(main.result.value)
              /\ \A i \in 1..Len(main.result.value.rows) :
                    main.result.value.rows[i]["rows_since_last_reset"] = NA

\* get_trades has handed its result to the caller
Got == pc = "got"

\* every query so far was answered by the subgraph as the query asks: the
\* order, with the first pageSize matching trades in descending order
ServerAnsweredAsAsked ==
    \A k \in 1..Len(query_results) :
        /\ ~failed(query_results[k].result)
        /\ query_results[k].result.data.orders # <<>>
        /\ query_results[k].result.data.orders[1].trades
              \in ServerBatches(trades, query_results[k].variables)

\* the trades of the order from the first second of the start date to the
\* last second of the end date
TradesInRange ==
    Matching(trades, date_timestamp(start_date_str), next_day_timestamp(end_date_str))

TradeIds(rows) == [k \in 1..Len(rows) |-> rows[k]["trade_id"]]

\* C25 (as claimed): when every query was answered as asked and the order has
\* trades in the requested range, fetch_trades_for_order returns a table that
\* holds every trade of the range, also those that share the timestamp at
\* which a page ends.
C25_AllTradesOfTheRange ==
    (Got /\ ServerAnsweredAsAsked /\ TradesInRange # {}) =>
        /\ ReturnedFrame(df_trades)
        /\ \A i \in TradesInRange :
              \E k \in 1..Len(df_trades.value.rows) : df_trades.value.rows[k]["trade_id"] = i

\* C26 (as claimed): when no trade was retrieved, fetch_trades_for_order
\* returns a table with no row and the desired columns, and get_trades hands
\* that table to the caller.
C26_EmptyTableWhenNoTrades ==
    (Got /\ all_trades_rows = <<>>) =>
        /\ ReturnedFrame(df_trades)
        /\ df_trades.value.rows = <<>>
        /\ Columns(df_trades.value)
              = {desired_columns_order[k] : k \in 1..Len(desired_columns_order)}
        /\ get_trades_result = df_trades

\* C28: the loop of fetch_trades_for_order ends after finitely many queries.
\* A query that is followed by another one leaves lastTs strictly smaller
\* than it was and not below startTs, so the number of queries never exceeds
\* one more than the seconds between startTs and the first lastTs.
C28_LoopEnds ==
    [][pc = "fetching" =>
          /\ pc' = "fetching" =>
                /\ current_last_timestamp' < current_last_timestamp
                /\ current_last_timestamp' >= date_timestamp(start_date_str)
          /\ Len(query_results') <=
                1 + Max({0, next_day_timestamp(end_date_str) - date_timestamp(start_date_str)})
      ]_vars

C28_Witness ==
    /\ pc = "fetched" /\ Len(query_results) >= 2
    /\ ServerAnsweredAsAsked
    /\ Len(all_trades_rows) = Len(trades)

\* the trades of the batches of the first n queries, in the order received
BatchIds(n) ==
    LET f[k \in 0..n] ==
            IF k = 0 THEN <<>>
            ELSE LET b == query_results[k].result.data.orders[1].trades
                 IN f[k - 1] \o [j \in 1..Len(b) |-> b[j].id]
    IN f[n]

\* C29: a query that fails is the last query, and when it comes after queries
\* that succeeded, fetch_trades_for_order returns a table, as a normal
\* result, that holds exactly the trades of the batches received before it,
\* and get_trades hands that table on.
C29_FailureKeepsEarlierPages ==
    /\ \A k \in 1..Len(query_results) :
          failed(query_results[k].result) => k = Len(query_results)
    /\ (/\ Got /\ Len(query_results) >= 2
         /\ failed(query_results[Len(query_results)].result)) =>
            /\ ReturnedFrame(df_trades)
            /\ TradeIds(df_trades.value.rows) = BatchIds(Len(query_results) - 1)
            /\ get_trades_result = df_trades

C29_Witness ==
    /\ Got /\ Len(query_results) >= 2
    /\ failed(query_results[Len(query_results)].result)
    /\ df_trades.outcome = "return"

====
